---------------------------- MODULE Spec2Model ----------------------------
(***************************************************************************)
(* Model of age_plotter's query execution service                          *)
(* (src/src/age_plotter/services/query_executor.py).                       *)
(*                                                                         *)
(* Four specifications share this module.                                  *)
(*   Spec          the asyncio tasks: execute_query calls and cancel_query *)
(*                 calls interleaving at their await points around the     *)
(*                 global _running_queries registry.                       *)
(*   SpecResult    the pure result transformation: raw backend rows are    *)
(*                 drawn from a bounded universe and _transform_*_results  *)
(*                 is applied to them.                                     *)
(*   SpecWrapper   the column resolver and the AGE wrapper, applied to     *)
(*                 composed Cypher texts.                                  *)
(*   SpecDeadline  the two deadline-bounded waits of _execute_neo4j, with  *)
(*                 the time each phase of the query needs.                 *)
(* An action of Spec is the code that runs between two awaits: asyncio     *)
(* runs one coroutine at a time and switches only at an await.  When a     *)
(* call returns its frame is gone: its locals (its ExecutionContext        *)
(* included, which nothing reads any more) go back to their initial        *)
(* values; the session it was called for and the returned value stay.      *)
(***************************************************************************)
EXTENDS Integers, Sequences, FiniteSets, TLC

(***************************************************************************)
(* Bounds of the model.                                                    *)
(***************************************************************************)
\* number of execute_query calls
NumTasks == 2
\* number of cancel_query calls (one after the other)
MaxCancels == 1
\* largest number of cells (rows x columns) of a raw result
MaxCells == 2
\* largest number of fragments of a return clause
MaxFragments == 3

Tasks == 1..NumTasks
\* session ids (the session cookie's value, routes/query.py get_session_id)
Sessions == {"s1", "s2"}
NoSession == "none"
\* ConnectionType
Backends == {"neo4j", "age"}
NoBackend == "none"
\* no ExecutionContext / no task
NoTask == 0
\* connection = store.get_active(session_id): the active connection of
\* each session; session s1 works on Neo4j, session s2 on AGE
ActiveConnection(s) == IF s = "s1" THEN "neo4j" ELSE "age"

VARIABLES
    \* ---- execute_query calls ----
    pc,         \* pc[t]: the await the call t is suspended at
    sess,       \* sess[t]: session_id argument (NoSession before the call)
    running,    \* _running_queries: session id -> task owning the registered
                \* ExecutionContext (NoTask: no entry)
    cancelled,  \* cancelled[t]: ctx.cancelled of the ExecutionContext of t
    conn,       \* conn[t]: neo4j session / psycopg connection of t
    driver,     \* driver[t]: neo4j driver of t
    terminal,   \* terminal[t]: the failure that ended the query of t
                \* ("none" outside the call)
    result,     \* result[t]: what the call returns (or that it raises)
    error,      \* error[t]: the QueryError the call returns (NoError if
                \* none)
    signalled,  \* signalled[t]: a termination action was issued against
                \* the handle of t (session.close() called on its session /
                \* pg_cancel_backend sent to its pid)
    \* ---- the cancel_query call ----
    cpc,        \* the await the call is suspended at ("idle": no call)
    csess,      \* session_id argument
    ctarget,    \* local ctx (the task owning it), NoTask if none
    cside,      \* the side connection cancel_conn
    cresult,    \* return value
    ncancel,    \* number of cancel_query calls started so far
    \* ---- result transformation, column resolver and wrapper ----
    rpc,        \* "off" | "input" | "done" (transformation);
                \* "query" | "columns" | "wrapped" (resolver and wrapper);
                \* "submit" | "fetch" | "returned" (deadline)
    rin,        \* raw result: backend, columns, rows; or the query
    rout        \* QueryResult; or the column names; or the wrapped query

execVars == <<pc, sess, running, cancelled, signalled, conn, driver,
              terminal, result, error>>
cancelVars == <<cpc, csess, ctarget, cside, cresult, ncancel>>
resVars == <<rpc, rin, rout>>
vars == <<execVars, cancelVars, resVars>>

\* connection.type of call t
Backend(t) == IF sess[t] = NoSession THEN NoBackend ELSE ActiveConnection(sess[t])

(***************************************************************************)
(* Registry operations.                                                    *)
(***************************************************************************)
RegisterEverywhere(s, t) == [x \in Sessions |-> t]
\* _running_queries[session_id] = ctx
Register(s, t) == [running EXCEPT ![s] = t]

UnregisterNothing(s) == running
UnregisterAll(s) == [x \in Sessions |-> NoTask]
\* finally: _running_queries.pop(session_id, None)
Unregister(s) == [running EXCEPT ![s] = NoTask]

LookupOldest(s) ==
    IF running[s] = NoTask THEN NoTask
    ELSE CHOOSE t \in Tasks :
            /\ sess[t] = s /\ pc[t] \notin {"idle", "done"}
            /\ \A u \in Tasks :
                  (sess[u] = s /\ pc[u] \notin {"idle", "done"}) => t <= u
LookupAnySession(s) ==
    IF running[s] # NoTask THEN running[s]
    ELSE IF \E s2 \in Sessions : running[s2] # NoTask
         THEN running[CHOOSE s2 \in Sessions : running[s2] # NoTask]
         ELSE NoTask
\* ctx = _running_queries.get(session_id)
Lookup(s) == running[s]

KeepFlag(t) == cancelled
\* ctx.cancelled = True
SetCancelled(t) == [cancelled EXCEPT ![t] = TRUE]

(***************************************************************************)
(* Classification of a failed query.  shape is what the await raised:      *)
(*   "deadline"  asyncio.TimeoutError (neo4j) / QueryCanceled raised by    *)
(*               statement_timeout (age)                                   *)
(*   "abort"     the error raised because cancel_query closed the session  *)
(*               (neo4j) / QueryCanceled raised by pg_cancel_backend (age) *)
(*   "error"     any other backend error                                   *)
(***************************************************************************)
Shapes == {"deadline", "abort", "error"}

\* except asyncio.TimeoutError / except Exception
ClassifyNeo4j(shape, flag) ==
    IF shape = "deadline" THEN "TIMEOUT"
    ELSE IF flag THEN "CANCELLED"
    ELSE "BACKEND_ERROR"

AgeIgnoreFlag(shape, flag) ==
    IF shape \in {"deadline", "abort"} THEN "TIMEOUT" ELSE "BACKEND_ERROR"
\* except psycopg.errors.QueryCanceled / except psycopg.Error
ClassifyAge(shape, flag) ==
    IF shape \in {"deadline", "abort"}
    THEN (IF flag THEN "CANCELLED" ELSE "TIMEOUT")
    ELSE "BACKEND_ERROR"

\* QueryError(message, code) (models/result.py); code defaults to None
QueryError(message, code) == [message |-> message, code |-> code]
NoCode == "None"
NoError == [message |-> "", code |-> "none"]

\* what the await raises: its Python shape, str(e) and, for a psycopg
\* error, e.sqlstate (None when the error did not come from the server)
Exception(shape, message, sqlstate) ==
    [shape |-> shape, message |-> message, sqlstate |-> sqlstate]
Neo4jExceptions ==
    { Exception("deadline", "", NoCode),
      Exception("abort", "Session closed", NoCode),
      Exception("error", "Invalid input 'RETRUN'", NoCode) }
AgeExceptions ==
    { Exception("deadline", "canceling statement due to statement timeout", "57014"),
      Exception("abort", "canceling statement due to user request", "57014"),
      Exception("error", "syntax error at or near \"RETRUN\"", "42601"),
      Exception("error", "server closed the connection unexpectedly", NoCode) }
Exceptions(backend, shape) ==
    { e \in (IF backend = "neo4j" THEN Neo4jExceptions ELSE AgeExceptions) :
        e.shape = shape }

AgeErrorWithoutCode(e, flag) == QueryError(e.message, NoCode)
\* the QueryError _execute_neo4j returns for the exception e
Neo4jQueryError(e, flag) ==
    IF e.shape = "deadline" THEN QueryError("Query timed out", "TIMEOUT")
    ELSE IF flag THEN QueryError("Query cancelled", "CANCELLED")
    ELSE QueryError(e.message, NoCode)
\* the QueryError _execute_age returns for the exception e
AgeQueryError(e, flag) ==
    IF e.shape \in {"deadline", "abort"}
    THEN (IF flag THEN QueryError("Query cancelled", "CANCELLED")
          ELSE QueryError("Query timed out", "TIMEOUT"))
    ELSE QueryError(e.message, e.sqlstate)

ReleaseOnSuccessOnly(res, c) == IF res = "RESULT" THEN "closed" ELSE c
\* finally: await conn.close() / async with ... as session / driver.close()
Release(res, c) == "closed"

(***************************************************************************)
(* Python values.  Every value is a record with a field py naming its      *)
(* Python type; strings keep their text, so that startswith, in, replace   *)
(* and slicing are computed on the text itself.                            *)
(***************************************************************************)
PyNone == [py |-> "NoneType"]
PyStr(text) == [py |-> "str", v |-> text]
PyInt(n) == [py |-> "int", n |-> n]
PyList(items) == [py |-> "list", items |-> items]
\* keys: the keys in insertion order; d: key -> value
PyDict(keys, d) == [py |-> "dict", keys |-> keys, d |-> d]
EmptyDict == PyDict(<<>>, <<>>)

\* dict.get(key, default)
Get(dict, key, default) == IF key \in DOMAIN dict.d THEN dict.d[key] ELSE default
\* bool(value)
Truthy(val) ==
    CASE val.py = "NoneType" -> FALSE
      [] val.py = "str" -> val.v # ""
      [] val.py = "int" -> val.n # 0
      [] val.py = "list" -> val.items # <<>>
      [] val.py = "dict" -> val.keys # <<>>
      \* neo4j.graph.Node is a Mapping of its properties: bool() is len() > 0
      [] val.py = "Node" -> val.props.keys # <<>>
      [] OTHER -> TRUE
\* str(value), for the values that reach it here: strings and integers
Str(val) ==
    CASE val.py = "str" -> val.v
      [] val.py = "int" -> ToString(val.n)
      [] val.py = "NoneType" -> "None"

\* text.startswith(prefix)
StartsWith(text, prefix) ==
    Len(text) >= Len(prefix) /\ SubSeq(text, 1, Len(prefix)) = prefix
\* sub in text
Contains(text, sub) ==
    \E i \in 1..(Len(text) - Len(sub) + 1) : SubSeq(text, i, i + Len(sub) - 1) = sub
\* text.replace(old, ""): the occurrences of old are dropped, left to right
RECURSIVE Remove(_, _)
Remove(text, old) ==
    LET at == { i \in 1..(Len(text) - Len(old) + 1) :
                  SubSeq(text, i, i + Len(old) - 1) = old }
    IN  IF at = {} THEN text
        ELSE LET first == CHOOSE i \in at : \A j \in at : i <= j
             IN  SubSeq(text, 1, first - 1)
                 \o Remove(SubSeq(text, first + Len(old), Len(text)), old)

(***************************************************************************)
(* Result models (models/result.py).                                       *)
(***************************************************************************)
GraphNode(id, labels, properties) ==
    [id |-> id, labels |-> labels, properties |-> properties]
GraphRelationship(id, type, start_node_id, end_node_id, properties) ==
    [id |-> id, type |-> type, start_node_id |-> start_node_id,
     end_node_id |-> end_node_id, properties |-> properties]
HasIdNever(elems, id) == FALSE
\* key in nodes / key in rels: the dicts are kept as the sequence of their
\* values, in insertion order
HasId(elems, id) == \E i \in 1..Len(elems) : elems[i].id = id

\* the cells the serializers build
NodeCell(id, display) ==
    PyDict(<<"__type", "id", "display">>,
           [__type |-> PyStr("node"), id |-> PyStr(id), display |-> PyStr(display)])
RelCell(id, display) ==
    PyDict(<<"__type", "id", "display">>,
           [__type |-> PyStr("rel"), id |-> PyStr(id), display |-> PyStr(display)])
PathCell(display) ==
    PyDict(<<"__type", "display">>,
           [__type |-> PyStr("path"), display |-> PyStr(display)])

(***************************************************************************)
(* Flags of a result.                                                      *)
(***************************************************************************)
\* val.get("__type"), as text; "" when the key is missing or no string
TypeTag(val) ==
    IF "__type" \in DOMAIN val.d /\ val.d["__type"].py = "str"
    THEN val.d["__type"].v ELSE ""

IsGraphValueNoPath(val) == val.py = "dict" /\ TypeTag(val) \in {"node", "rel"}
\* _is_graph_value
IsGraphValue(val) == val.py = "dict" /\ TypeTag(val) \in {"node", "rel", "path"}

\* _is_paths_only
IsPathsOnly(rows) ==
    /\ rows # <<>>
    /\ \A i \in 1..Len(rows) : \A j \in 1..Len(rows[i]) :
          /\ rows[i][j].py = "dict"
          /\ TypeTag(rows[i][j]) \notin {"node", "rel"}
          /\ TypeTag(rows[i][j]) = "path"

\* _check_graph_compatible
CheckGraphCompatible(rows) ==
    \A i \in 1..Len(rows) : \A j \in 1..Len(rows[i]) : IsGraphValue(rows[i][j])

QueryResultDefaultCount(columns, rows, nodes, relationships, row_count, is_graph_compatible, is_paths_only) ==
    [columns |-> columns, rows |-> rows, nodes |-> nodes,
     relationships |-> relationships, row_count |-> 0,
     is_graph_compatible |-> is_graph_compatible,
     is_paths_only |-> is_paths_only]

\* QueryResult(...) with the dataclass defaults for what is not passed
QueryResult(columns, rows, nodes, relationships, row_count, is_graph_compatible, is_paths_only) ==
    [columns |-> columns, rows |-> rows, nodes |-> nodes,
     relationships |-> relationships, row_count |-> row_count,
     is_graph_compatible |-> is_graph_compatible,
     is_paths_only |-> is_paths_only]
\* QueryResult(columns=[], rows=[], execution_time_ms=elapsed_ms)
EmptyQueryResult == QueryResult(<<>>, <<>>, <<>>, <<>>, 0, TRUE, FALSE)

(***************************************************************************)
(* Display strings.                                                        *)
(***************************************************************************)
\* val[:50] + "..." if len(val) > 50 else val
DisplayLimit == 50
Truncate(text) ==
    IF Len(text) > DisplayLimit THEN SubSeq(text, 1, DisplayLimit) \o "..." ELSE text

DisplayKeys == <<"name", "title", "label", "id">>
RECURSIVE DisplayFrom(_, _)
DisplayFrom(props, k) ==
    IF k > Len(DisplayKeys) THEN ""
    ELSE IF DisplayKeys[k] \in DOMAIN props.d /\ Truthy(props.d[DisplayKeys[k]])
         THEN Truncate(Str(props.d[DisplayKeys[k]]))
         ELSE DisplayFrom(props, k + 1)
\* _get_display_name
GetDisplayName(props) == DisplayFrom(props, 1)

\* display_text of a node
NodeDisplay(label, props) ==
    LET display == GetDisplayName(props) IN
    IF label # "" /\ display # "" THEN "(" \o label \o ": " \o display \o ")"
    ELSE IF label # "" THEN "(" \o label \o ")"
    ELSE "(Node)"
\* display_text of a relationship
RelDisplay(rel_type) ==
    IF rel_type # "" THEN "-[:" \o rel_type \o "]->" ELSE "-[rel]->"

(***************************************************************************)
(* Neo4j values (neo4j.graph.Node, Relationship, Path) and their           *)
(* serialization.  A serializer returns the cell together with the node    *)
(* and relationship dicts it has updated.                                  *)
(***************************************************************************)
Neo4jNode(element_id, labels, props) ==
    [py |-> "Node", element_id |-> element_id, labels |-> labels, props |-> props]
\* start_node / end_node: a Neo4jNode or PyNone
Neo4jRelationship(element_id, type, start_node, end_node, props) ==
    [py |-> "Relationship", element_id |-> element_id, type |-> type,
     start_node |-> start_node, end_node |-> end_node, props |-> props]
Neo4jPath(nodes, relationships) ==
    [py |-> "Path", nodes |-> nodes, relationships |-> relationships]

Out(val, nodes, rels) == [val |-> val, nodes |-> nodes, rels |-> rels]

RECURSIVE SerializeNeo4jValue(_, _, _)
RECURSIVE SerializeNeo4jList(_, _, _, _)
RECURSIVE SerializeNeo4jDict(_, _, _, _, _)

\* [_serialize_neo4j_value(v, nodes, rels) for v in vals], done holds the
\* cells of the values already serialized
SerializeNeo4jList(vals, done, nodes, rels) ==
    IF Len(done) = Len(vals) THEN Out(done, nodes, rels)
    ELSE LET r == SerializeNeo4jValue(vals[Len(done) + 1], nodes, rels)
         IN  SerializeNeo4jList(vals, Append(done, r.val), r.nodes, r.rels)

\* {k: _serialize_neo4j_value(v, nodes, rels) for k, v in val.items()}
SerializeNeo4jDict(val, k, done, nodes, rels) ==
    IF k > Len(val.keys) THEN Out(PyDict(val.keys, done), nodes, rels)
    ELSE LET key == val.keys[k]
             r == SerializeNeo4jValue(val.d[key], nodes, rels)
         IN  SerializeNeo4jDict(val, k + 1,
                 [x \in DOMAIN done \cup {key} |->
                      IF x = key THEN r.val ELSE done[x]],
                 r.nodes, r.rels)

\* _serialize_neo4j_value
SerializeNeo4jValue(val, nodes, rels) ==
    CASE val.py = "Node" ->
            LET node_id == val.element_id
                labels == val.labels
                label == IF labels # <<>> THEN labels[1] ELSE ""
            IN  Out(NodeCell(node_id, NodeDisplay(label, val.props)),
                    IF ~HasId(nodes, node_id)
                    THEN Append(nodes, GraphNode(node_id, labels, val.props))
                    ELSE nodes,
                    rels)
      [] val.py = "Relationship" ->
            LET rel_id == val.element_id
                start_id == IF Truthy(val.start_node)
                            THEN val.start_node.element_id ELSE ""
                end_id == IF Truthy(val.end_node)
                          THEN val.end_node.element_id ELSE ""
            IN  Out(RelCell(rel_id, RelDisplay(val.type)),
                    nodes,
                    IF ~HasId(rels, rel_id)
                    THEN Append(rels, GraphRelationship(rel_id, val.type,
                                          start_id, end_id, val.props))
                    ELSE rels)
      [] val.py = "Path" ->
            LET n == SerializeNeo4jList(val.nodes, <<>>, nodes, rels)
                r == SerializeNeo4jList(val.relationships, <<>>, n.nodes, n.rels)
            IN  Out(PathCell("Path(length=" \o ToString(Len(val.relationships))
                             \o ")"),
                    r.nodes, r.rels)
      [] val.py = "list" ->
            LET r == SerializeNeo4jList(val.items, <<>>, nodes, rels)
            IN  Out(PyList(r.val), r.nodes, r.rels)
      [] val.py = "dict" -> SerializeNeo4jDict(val, 1, <<>>, nodes, rels)
      [] OTHER -> Out(val, nodes, rels)

\* the loop of _transform_neo4j_results / _transform_age_results over the
\* cells of one row, then over the rows; rows_done: the rows built so far
RECURSIVE Neo4jRows(_, _, _, _)
Neo4jRows(raw_rows, rows_done, nodes, rels) ==
    IF Len(rows_done) = Len(raw_rows) THEN Out(rows_done, nodes, rels)
    ELSE LET r == SerializeNeo4jList(raw_rows[Len(rows_done) + 1], <<>>,
                                     nodes, rels)
         IN  Neo4jRows(raw_rows, Append(rows_done, r.val), r.nodes, r.rels)

\* _transform_neo4j_results; records: the record dicts as their common keys
\* and, per record, its values in key order
TransformNeo4jResults(keys, records) ==
    IF records = <<>> THEN EmptyQueryResult
    ELSE LET r == Neo4jRows(records, <<>>, <<>>, <<>>)
         IN  QueryResult(keys, r.val, r.nodes, r.rels, Len(r.val),
                         CheckGraphCompatible(r.val) /\ Len(r.rels) > 0,
                         IsPathsOnly(r.val))

(***************************************************************************)
(* AGE values: agtype arrives as text.  json.loads is given by its value   *)
(* on the texts that reach it; any other text raises JSONDecodeError.      *)
(***************************************************************************)
VertexAnnJson == "{\"id\": \"1\", \"label\": \"Person\", \"properties\": {\"name\": \"Ann\"}}"
VertexBobJson == "{\"id\": 2, \"label\": \"\", \"properties\": {}}"
VertexNoIdJson == "{\"label\": \"Ghost\", \"properties\": {}}"
EdgeKnowsJson == "{\"id\": 3, \"label\": \"KNOWS\", \"end_id\": 2, \"start_id\": 1, \"properties\": {}}"
MapJson == "{\"a\": 1}"
PathJson == "[" \o VertexAnnJson \o ", " \o EdgeKnowsJson \o ", " \o VertexBobJson \o "]"
PointPathJson == "[" \o VertexAnnJson \o "]"

VertexAnn ==
    PyDict(<<"id", "label", "properties">>,
           [id |-> PyStr("1"), label |-> PyStr("Person"),
            properties |-> PyDict(<<"name">>, [name |-> PyStr("Ann")])])
VertexBob ==
    PyDict(<<"id", "label", "properties">>,
           [id |-> PyInt(2), label |-> PyStr(""), properties |-> EmptyDict])
VertexNoId ==
    PyDict(<<"label", "properties">>,
           [label |-> PyStr("Ghost"), properties |-> EmptyDict])
EdgeKnows ==
    PyDict(<<"id", "label", "end_id", "start_id", "properties">>,
           [id |-> PyInt(3), label |-> PyStr("KNOWS"), end_id |-> PyInt(2),
            start_id |-> PyInt(1), properties |-> EmptyDict])

Parsed(v) == [ok |-> TRUE, v |-> v]
JSONDecodeError == [ok |-> FALSE]
\* json.loads
JsonLoads(text) ==
    CASE text = VertexAnnJson -> Parsed(VertexAnn)
      [] text = VertexBobJson -> Parsed(VertexBob)
      [] text = VertexNoIdJson -> Parsed(VertexNoId)
      [] text = EdgeKnowsJson -> Parsed(EdgeKnows)
      [] text = MapJson -> Parsed(PyDict(<<"a">>, [a |-> PyInt(1)]))
      [] text = PathJson -> Parsed(PyList(<<VertexAnn, EdgeKnows, VertexBob>>))
      [] text = PointPathJson -> Parsed(PyList(<<VertexAnn>>))
      [] OTHER -> JSONDecodeError

\* repr(value) of a parsed JSON value; str(dict) is its repr
RECURSIVE Repr(_)
RECURSIVE ReprItems(_, _)
Repr(val) ==
    CASE val.py = "str" -> "'" \o val.v \o "'"
      [] val.py = "int" -> ToString(val.n)
      [] val.py = "NoneType" -> "None"
      [] val.py = "dict" -> "{" \o ReprItems(val, 1) \o "}"
ReprItems(val, k) ==
    IF k > Len(val.keys) THEN ""
    ELSE "'" \o val.keys[k] \o "': " \o Repr(val.d[val.keys[k]])
         \o (IF k < Len(val.keys) THEN ", " ELSE "")
         \o ReprItems(val, k + 1)

LabelListKeepEmpty(label) == <<label.v>>
\* [label] if label else []
LabelList(label) == IF Truthy(label) THEN <<label.v>> ELSE <<>>

\* the vertex branch of _process_age_path and _process_age_graph_element
AgeAddNode(elem, nodes) ==
    LET node_id == Str(Get(elem, "id", PyStr("")))
        label == Get(elem, "label", PyStr(""))
        props == Get(elem, "properties", EmptyDict)
    IN  IF node_id # "" /\ ~HasId(nodes, node_id)
        THEN Append(nodes, GraphNode(node_id, LabelList(label), props))
        ELSE nodes
\* the edge branch of _process_age_path and _process_age_graph_element
AgeAddRel(elem, rels) ==
    LET rel_id == Str(Get(elem, "id", PyStr("")))
    IN  IF rel_id # "" /\ ~HasId(rels, rel_id)
        THEN Append(rels, GraphRelationship(rel_id,
                              Get(elem, "label", PyStr("")).v,
                              Str(Get(elem, "start_id", PyStr(""))),
                              Str(Get(elem, "end_id", PyStr(""))),
                              Get(elem, "properties", EmptyDict)))
        ELSE rels

\* the loop of _process_age_path over path_elements, from element k on
RECURSIVE AgePathElements(_, _, _, _, _, _)
AgePathElements(elems, k, nodes, rels, node_count, rel_count) ==
    IF k > Len(elems)
    THEN Out(PathCell("Path(nodes=" \o ToString(node_count) \o ", rels="
                      \o ToString(rel_count) \o ")"),
             nodes, rels)
    ELSE LET elem == elems[k] IN
         IF elem.py # "dict"
         THEN AgePathElements(elems, k + 1, nodes, rels, node_count, rel_count)
         ELSE IF "start_id" \in DOMAIN elem.d \/ "end_id" \in DOMAIN elem.d
         THEN AgePathElements(elems, k + 1, nodes, AgeAddRel(elem, rels),
                              node_count, rel_count + 1)
         ELSE AgePathElements(elems, k + 1, AgeAddNode(elem, nodes), rels,
                              node_count + 1, rel_count)

\* _process_age_path
ProcessAgePath(val, nodes, rels) ==
    LET clean == Remove(Remove(Remove(val.v, "::path"), "::vertex"), "::edge")
        path_elements == JsonLoads(clean)
    IN  IF ~path_elements.ok THEN Out(val, nodes, rels)
        ELSE IF path_elements.v.py # "list" THEN Out(val, nodes, rels)
        ELSE AgePathElements(path_elements.v.items, 1, nodes, rels, 0, 0)

\* _process_age_graph_element
ProcessAgeGraphElement(parsed, nodes, rels, original) ==
    IF Contains(original, "::vertex")
    THEN LET label == Get(parsed, "label", PyStr(""))
             props == Get(parsed, "properties", EmptyDict)
         IN  Out(NodeCell(Str(Get(parsed, "id", PyStr(""))),
                          NodeDisplay(label.v, props)),
                 AgeAddNode(parsed, nodes), rels)
    ELSE IF Contains(original, "::edge")
    THEN Out(RelCell(Str(Get(parsed, "id", PyStr(""))),
                     RelDisplay(Get(parsed, "label", PyStr("")).v)),
             nodes, AgeAddRel(parsed, rels))
    ELSE Out(PyStr(Repr(parsed)), nodes, rels)

\* _serialize_age_value
SerializeAgeValue(val, nodes, rels) ==
    IF val.py = "NoneType" THEN Out(PyNone, nodes, rels)
    ELSE IF val.py # "str" THEN Out(val, nodes, rels)
    ELSE IF StartsWith(val.v, "[") /\ Contains(val.v, "::path")
    THEN ProcessAgePath(val, nodes, rels)
    ELSE IF StartsWith(val.v, "{")
    THEN LET parsed == JsonLoads(Remove(Remove(val.v, "::vertex"), "::edge"))
         IN  IF parsed.ok
             THEN ProcessAgeGraphElement(parsed.v, nodes, rels, val.v)
             ELSE Out(val, nodes, rels)
    ELSE Out(val, nodes, rels)

\* the inner loop of _transform_age_results over the values of one row
RECURSIVE SerializeAgeRow(_, _, _, _)
SerializeAgeRow(vals, done, nodes, rels) ==
    IF Len(done) = Len(vals) THEN Out(done, nodes, rels)
    ELSE LET r == SerializeAgeValue(vals[Len(done) + 1], nodes, rels)
         IN  SerializeAgeRow(vals, Append(done, r.val), r.nodes, r.rels)
\* the outer loop of _transform_age_results over rows_raw
RECURSIVE AgeRows(_, _, _, _)
AgeRows(rows_raw, rows_done, nodes, rels) ==
    IF Len(rows_done) = Len(rows_raw) THEN Out(rows_done, nodes, rels)
    ELSE LET r == SerializeAgeRow(rows_raw[Len(rows_done) + 1], <<>>, nodes, rels)
         IN  AgeRows(rows_raw, Append(rows_done, r.val), r.nodes, r.rels)

\* _transform_age_results
TransformAgeResults(columns, rows_raw) ==
    LET r == AgeRows(rows_raw, <<>>, <<>>, <<>>)
    IN  QueryResult(columns, r.val, r.nodes, r.rels, Len(r.val),
                    CheckGraphCompatible(r.val) /\ Len(r.rels) > 0,
                    IsPathsOnly(r.val))

(***************************************************************************)
(* Initial state: no call has started, the registry is empty.              *)
(***************************************************************************)
ExecInit ==
    /\ pc = [t \in Tasks |-> "idle"]
    /\ sess = [t \in Tasks |-> NoSession]
    /\ running = [s \in Sessions |-> NoTask]
    /\ cancelled = [t \in Tasks |-> FALSE]
    /\ signalled = [t \in Tasks |-> FALSE]
    /\ conn = [t \in Tasks |-> "none"]
    /\ driver = [t \in Tasks |-> "none"]
    /\ terminal = [t \in Tasks |-> "none"]
    /\ result = [t \in Tasks |-> "none"]
    /\ error = [t \in Tasks |-> NoError]

CancelInit ==
    /\ cpc = "idle"
    /\ csess = NoSession
    /\ ctarget = NoTask
    /\ cside = "none"
    /\ cresult = "none"
    /\ ncancel = 0

ResOff ==
    /\ rpc = "off"
    /\ rin = <<>>
    /\ rout = <<>>

Init == ExecInit /\ CancelInit /\ ResOff

(***************************************************************************)
(* execute_query on a Neo4j connection (_execute_neo4j).                   *)
(***************************************************************************)
\* AsyncGraphDatabase.driver(...) raises (it is outside every try of
\* _execute_neo4j): the exception leaves execute_query through its finally.
Neo4jDriverRaises(t, s) ==
    /\ pc[t] = "idle"
    /\ ActiveConnection(s) = "neo4j"
    /\ pc' = [pc EXCEPT ![t] = "done"]
    /\ sess' = [sess EXCEPT ![t] = s]
    /\ result' = [result EXCEPT ![t] = "RAISED"]
    /\ running' = Unregister(s)
    /\ UNCHANGED <<error, cancelled, signalled, conn, driver, terminal,
                   cancelVars, resVars>>

\* driver created, session entered, ctx registered, session.run awaited.
\* Nothing suspends between the call and the first wait_for.
Neo4jStart(t, s) ==
    /\ pc[t] = "idle"
    /\ ActiveConnection(s) = "neo4j"
    /\ pc' = [pc EXCEPT ![t] = "submit"]
    /\ sess' = [sess EXCEPT ![t] = s]
    /\ driver' = [driver EXCEPT ![t] = "open"]
    /\ conn' = [conn EXCEPT ![t] = "open"]
    /\ running' = Register(s, t)
    /\ UNCHANGED <<error, cancelled, signalled, terminal, result, cancelVars, resVars>>

\* session.run returned within the timeout: to_eager_result is awaited
Neo4jSubmitted(t) ==
    /\ pc[t] = "submit"
    /\ pc' = [pc EXCEPT ![t] = "fetch"]
    /\ UNCHANGED <<error, sess, running, cancelled, signalled, conn, driver, terminal,
                   result, cancelVars, resVars>>

\* to_eager_result returned within the timeout: the records are transformed
\* and the session's __aexit__ (session.close) is awaited
Neo4jFetched(t) ==
    /\ pc[t] = "fetch"
    /\ pc' = [pc EXCEPT ![t] = "close_session"]
    /\ result' = [result EXCEPT ![t] = "RESULT"]
    /\ UNCHANGED <<error, sess, running, cancelled, signalled, conn, driver, terminal,
                   cancelVars, resVars>>

\* one of the two wait_for calls raises
Neo4jFails(t, shape) ==
    /\ pc[t] \in {"submit", "fetch"}
    /\ shape = "abort" => signalled[t]
    /\ pc' = [pc EXCEPT ![t] = "close_session"]
    /\ terminal' = [terminal EXCEPT ![t] = shape]
    /\ result' = [result EXCEPT ![t] = ClassifyNeo4j(shape, cancelled[t])]
    /\ \E e \in Exceptions("neo4j", shape) :
          error' = [error EXCEPT ![t] = Neo4jQueryError(e, cancelled[t])]
    /\ UNCHANGED <<sess, running, cancelled, signalled, conn, driver,
                   cancelVars, resVars>>

\* session.close() done (async with exit); finally: driver.close() awaited
Neo4jSessionClosed(t) ==
    /\ pc[t] = "close_session"
    /\ pc' = [pc EXCEPT ![t] = "close_driver"]
    /\ conn' = [conn EXCEPT ![t] = Release(result[t], conn[t])]
    /\ UNCHANGED <<error, sess, running, cancelled, signalled, driver, terminal,
                   result, cancelVars, resVars>>

\* driver.close() done; execute_query's finally pops the registry entry
\* and the call returns
Neo4jDriverClosed(t) ==
    /\ pc[t] = "close_driver"
    /\ pc' = [pc EXCEPT ![t] = "done"]
    /\ driver' = [driver EXCEPT ![t] = Release(result[t], driver[t])]
    /\ running' = Unregister(sess[t])
    /\ terminal' = [terminal EXCEPT ![t] = "none"]
    /\ cancelled' = [cancelled EXCEPT ![t] = FALSE]
    /\ signalled' = [signalled EXCEPT ![t] = FALSE]
    /\ UNCHANGED <<error, sess, conn, result, cancelVars, resVars>>

(***************************************************************************)
(* execute_query on an AGE connection (_execute_age).                      *)
(***************************************************************************)
\* psycopg.AsyncConnection.connect(...) is awaited
AgeStart(t, s) ==
    /\ pc[t] = "idle"
    /\ ActiveConnection(s) = "age"
    /\ pc' = [pc EXCEPT ![t] = "connect"]
    /\ sess' = [sess EXCEPT ![t] = s]
    /\ UNCHANGED <<error, running, cancelled, signalled, conn, driver, terminal, result,
                   cancelVars, resVars>>

\* connect raises (outside the try): the exception leaves execute_query
\* through its finally
AgeConnectRaises(t) ==
    /\ pc[t] = "connect"
    /\ pc' = [pc EXCEPT ![t] = "done"]
    /\ result' = [result EXCEPT ![t] = "RAISED"]
    /\ running' = Unregister(sess[t])
    /\ UNCHANGED <<error, sess, cancelled, signalled, conn, driver, terminal,
                   cancelVars, resVars>>

\* connect returned; LOAD 'age' is awaited
AgeConnected(t) ==
    /\ pc[t] = "connect"
    /\ pc' = [pc EXCEPT ![t] = "load"]
    /\ conn' = [conn EXCEPT ![t] = "open"]
    /\ UNCHANGED <<error, sess, running, cancelled, signalled, driver, terminal,
                   result, cancelVars, resVars>>

\* LOAD 'age' done; SET search_path is awaited
AgeLoaded(t) ==
    /\ pc[t] = "load"
    /\ pc' = [pc EXCEPT ![t] = "search_path"]
    /\ UNCHANGED <<error, sess, running, cancelled, signalled, conn, driver, terminal,
                   result, cancelVars, resVars>>

AgePathSetSkipsPid(t) ==
    /\ pc[t] = "search_path"
    /\ pc' = [pc EXCEPT ![t] = "set_timeout"]
    /\ UNCHANGED <<error, sess, running, cancelled, signalled, conn, driver,
                   terminal, result, cancelVars, resVars>>

\* SET search_path done; SELECT pg_backend_pid() is awaited
AgePathSet(t) ==
    /\ pc[t] = "search_path"
    /\ pc' = [pc EXCEPT ![t] = "pid"]
    /\ UNCHANGED <<error, sess, running, cancelled, signalled, conn, driver, terminal,
                   result, cancelVars, resVars>>

\* the pid row is fetched; ctx is registered; the query is wrapped;
\* SET statement_timeout is awaited
AgeRegistered(t) ==
    /\ pc[t] = "pid"
    /\ pc' = [pc EXCEPT ![t] = "set_timeout"]
    /\ running' = Register(sess[t], t)
    /\ UNCHANGED <<error, sess, cancelled, signalled, conn, driver, terminal, result,
                   cancelVars, resVars>>

\* SET statement_timeout done; the user statement is awaited
AgeTimeoutSet(t) ==
    /\ pc[t] = "set_timeout"
    /\ pc' = [pc EXCEPT ![t] = "query"]
    /\ UNCHANGED <<error, sess, running, cancelled, signalled, conn, driver, terminal,
                   result, cancelVars, resVars>>

\* a preparation statement raises: no except clause of _execute_age is
\* around it, so the exception propagates; finally: conn.close() awaited
AgePrepRaises(t) ==
    /\ pc[t] \in {"load", "search_path", "pid", "set_timeout"}
    /\ pc' = [pc EXCEPT ![t] = "close"]
    /\ result' = [result EXCEPT ![t] = "RAISED"]
    /\ UNCHANGED <<error, sess, running, cancelled, signalled, conn, driver, terminal,
                   cancelVars, resVars>>

\* conn.execute(query) and cursor.fetchall() returned; rows transformed
AgeFetched(t) ==
    /\ pc[t] = "query"
    /\ pc' = [pc EXCEPT ![t] = "close"]
    /\ result' = [result EXCEPT ![t] = "RESULT"]
    /\ UNCHANGED <<error, sess, running, cancelled, signalled, conn, driver, terminal,
                   cancelVars, resVars>>

\* the user statement raises psycopg.errors.QueryCanceled (deadline, abort)
\* or another psycopg.Error (error)
AgeFails(t, shape) ==
    /\ pc[t] = "query"
    /\ shape = "abort" => signalled[t]
    /\ pc' = [pc EXCEPT ![t] = "close"]
    /\ terminal' = [terminal EXCEPT ![t] = shape]
    /\ result' = [result EXCEPT ![t] = ClassifyAge(shape, cancelled[t])]
    /\ \E e \in Exceptions("age", shape) :
          error' = [error EXCEPT ![t] = AgeQueryError(e, cancelled[t])]
    /\ UNCHANGED <<sess, running, cancelled, signalled, conn, driver,
                   cancelVars, resVars>>

\* conn.close() done; execute_query's finally pops the registry entry and
\* the call returns (or the exception propagates)
AgeClosed(t) ==
    /\ pc[t] = "close"
    /\ pc' = [pc EXCEPT ![t] = "done"]
    /\ conn' = [conn EXCEPT ![t] = Release(result[t], conn[t])]
    /\ running' = Unregister(sess[t])
    /\ terminal' = [terminal EXCEPT ![t] = "none"]
    /\ cancelled' = [cancelled EXCEPT ![t] = FALSE]
    /\ signalled' = [signalled EXCEPT ![t] = FALSE]
    /\ UNCHANGED <<error, sess, driver, result, cancelVars, resVars>>

(***************************************************************************)
(* cancel_query.  One call is in flight at a time; when it has returned    *)
(* the next one may start.                                                 *)
(***************************************************************************)
\* no ctx: return False
CancelMiss(s) ==
    /\ cpc = "idle"
    /\ ncancel < MaxCancels
    /\ Lookup(s) = NoTask
    /\ cpc' = "done"
    /\ ncancel' = ncancel + 1
    /\ csess' = s
    /\ cresult' = "false"
    /\ UNCHANGED <<ctarget, cside, execVars, resVars>>

CancelHitRemoves(s) ==
    /\ cpc = "idle"
    /\ ncancel < MaxCancels
    /\ Lookup(s) # NoTask
    /\ ncancel' = ncancel + 1
    /\ running' = Unregister(s)
    /\ LET t == Lookup(s) IN
        /\ cancelled' = SetCancelled(t)
        /\ ctarget' = t
        /\ csess' = s
        /\ IF Backend(t) = "neo4j"
           THEN /\ cpc' = "session_close"
                /\ signalled' = [signalled EXCEPT ![t] = TRUE]
           ELSE /\ cpc' = "side_connect"
                /\ UNCHANGED signalled
    /\ UNCHANGED <<error, cside, cresult, pc, sess, conn, driver,
                   terminal, result, resVars>>

\* ctx found: the flag is set.  ctx.neo4j_session: session.close() is
\* called and awaited.  ctx.pg_conn and ctx.pg_pid: the side connection is
\* awaited (pg_pid is the backend's process id, never 0 or None once
\* pg_backend_pid() answered).
CancelHit(s) ==
    /\ cpc = "idle"
    /\ ncancel < MaxCancels
    /\ Lookup(s) # NoTask
    /\ ncancel' = ncancel + 1
    /\ LET t == Lookup(s) IN
        /\ cancelled' = SetCancelled(t)
        /\ ctarget' = t
        /\ csess' = s
        /\ IF Backend(t) = "neo4j"
           THEN /\ cpc' = "session_close"
                /\ signalled' = [signalled EXCEPT ![t] = TRUE]
           ELSE /\ cpc' = "side_connect"
                /\ UNCHANGED signalled
    /\ UNCHANGED <<error, cside, cresult, pc, sess, running, conn, driver,
                   terminal, result, resVars>>

\* ctx.neo4j_session.close() done: return True
CancelSessionClosed ==
    /\ cpc = "session_close"
    /\ cpc' = "done"
    /\ conn' = [conn EXCEPT ![ctarget] = "closed"]
    /\ cresult' = "true"
    /\ UNCHANGED <<error, csess, ctarget, cside, ncancel, pc, sess, running,
                   cancelled, signalled, driver, terminal, result, resVars>>

\* the side connection is open; SELECT pg_cancel_backend(pid) is awaited
CancelSideConnected ==
    /\ cpc = "side_connect"
    /\ cpc' = "side_exec"
    /\ cside' = "open"
    /\ UNCHANGED <<csess, ctarget, cresult, ncancel, execVars, resVars>>

\* connecting raises: except Exception: return False
CancelSideConnectRaises ==
    /\ cpc = "side_connect"
    /\ cpc' = "done"
    /\ cresult' = "false"
    /\ UNCHANGED <<csess, ctarget, cside, ncancel, execVars, resVars>>

\* pg_cancel_backend executed (it reaches the backend only while the
\* connection of the target is there); async with closes cancel_conn;
\* return True
CancelSideExecuted ==
    /\ cpc = "side_exec"
    /\ cpc' = "done"
    /\ cside' = "closed"
    /\ signalled' = [signalled EXCEPT ![ctarget] = (pc[ctarget] # "done")]
    /\ cresult' = "true"
    /\ UNCHANGED <<error, csess, ctarget, ncancel, pc, sess, running,
                   cancelled, conn, driver, terminal, result, resVars>>

\* the cancel command raises; async with closes cancel_conn;
\* except Exception: return False
CancelSideExecRaises ==
    /\ cpc = "side_exec"
    /\ cpc' = "done"
    /\ cside' = "closed"
    /\ cresult' = "false"
    /\ UNCHANGED <<csess, ctarget, ncancel, execVars, resVars>>

\* cancel_query_endpoint has answered {"cancelled": success}; the frame of
\* the call is gone
CancelReturned ==
    /\ cpc = "done"
    /\ cpc' = "idle"
    /\ csess' = NoSession
    /\ ctarget' = NoTask
    /\ cside' = "none"
    /\ cresult' = "none"
    /\ UNCHANGED <<ncancel, execVars, resVars>>

Next ==
    \/ \E t \in Tasks, s \in Sessions : Neo4jDriverRaises(t, s)
    \/ \E t \in Tasks, s \in Sessions : Neo4jStart(t, s)
    \/ \E t \in Tasks : Neo4jSubmitted(t)
    \/ \E t \in Tasks : Neo4jFetched(t)
    \/ \E t \in Tasks, shape \in Shapes : Neo4jFails(t, shape)
    \/ \E t \in Tasks : Neo4jSessionClosed(t)
    \/ \E t \in Tasks : Neo4jDriverClosed(t)
    \/ \E t \in Tasks, s \in Sessions : AgeStart(t, s)
    \/ \E t \in Tasks : AgeConnectRaises(t)
    \/ \E t \in Tasks : AgeConnected(t)
    \/ \E t \in Tasks : AgeLoaded(t)
    \/ \E t \in Tasks : AgePathSet(t)
    \/ \E t \in Tasks : AgeRegistered(t)
    \/ \E t \in Tasks : AgeTimeoutSet(t)
    \/ \E t \in Tasks : AgePrepRaises(t)
    \/ \E t \in Tasks : AgeFetched(t)
    \/ \E t \in Tasks, shape \in Shapes : AgeFails(t, shape)
    \/ \E t \in Tasks : AgeClosed(t)
    \/ \E s \in Sessions : CancelMiss(s)
    \/ \E s \in Sessions : CancelHit(s)
    \/ CancelSessionClosed
    \/ CancelSideConnected
    \/ CancelSideConnectRaises
    \/ CancelSideExecuted
    \/ CancelSideExecRaises
    \/ CancelReturned

Spec == Init /\ [][Next]_vars

(***************************************************************************)
(* Result transformation.  The raw result of a query is drawn from the     *)
(* values below, in every shape of at most MaxCells cells.                 *)
(***************************************************************************)
LongTitle == "A title of fifty-one characters, one more than fits"

NeoAnn == Neo4jNode("n1", <<"Person">>, PyDict(<<"name">>, [name |-> PyStr("Ann")]))
NeoBare == Neo4jNode("n2", <<>>, EmptyDict)
NeoMovie ==
    Neo4jNode("n3", <<"Movie", "Work">>,
              PyDict(<<"name", "title">>,
                     [name |-> PyStr(""), title |-> PyStr(LongTitle)]))
\* the end nodes of a relationship returned on its own carry no properties
NeoKnows ==
    Neo4jRelationship("r1", "KNOWS", NeoAnn, Neo4jNode("n2", <<>>, EmptyDict),
                      EmptyDict)
\* a node without label that has a name, a relationship that has a name
NeoEve == Neo4jNode("n4", <<>>, PyDict(<<"name">>, [name |-> PyStr("Eve")]))
NeoRated ==
    Neo4jRelationship("r2", "RATED", NeoAnn, NeoEve,
                      PyDict(<<"name">>, [name |-> PyStr("five stars")]))
NeoPath == Neo4jPath(<<NeoAnn, NeoBare>>, <<NeoKnows>>)
NeoPointPath == Neo4jPath(<<NeoAnn>>, <<>>)

Neo4jValues ==
    { NeoAnn, NeoBare, NeoMovie, NeoEve, NeoKnows, NeoRated, NeoPath,
      NeoPointPath, PyInt(7), PyNone,
      PyList(<<NeoAnn, NeoKnows>>),
      PyDict(<<"who">>, [who |-> NeoBare]),
      PyDict(<<"__type">>, [__type |-> PyStr("path")]) }

AgeValues ==
    { PyStr(VertexAnnJson \o "::vertex"),
      PyStr(VertexBobJson \o "::vertex"),
      PyStr(VertexNoIdJson \o "::vertex"),
      PyStr(EdgeKnowsJson \o "::edge"),
      PyStr("[" \o VertexAnnJson \o "::vertex, " \o EdgeKnowsJson \o "::edge, "
            \o VertexBobJson \o "::vertex]::path"),
      PyStr("[" \o VertexAnnJson \o "::vertex]::path"),
      PyStr("[broken::path"),
      PyStr(MapJson),
      PyStr("{broken"),
      PyStr("42"),
      PyNone }

\* rows and columns of a raw result
ResultShapes ==
    { sh \in (0..MaxCells) \X (1..MaxCells) : sh[1] * sh[2] <= MaxCells }
ColumnNames(n) == [j \in 1..n |-> "col" \o ToString(j)]
RawResults(backend, values) ==
    UNION { { [backend |-> backend, columns |-> ColumnNames(sh[2]), rows |-> rows] :
              rows \in [1..sh[1] -> [1..sh[2] -> values]] } : sh \in ResultShapes }

ResultInit ==
    /\ rpc = "input"
    /\ rin \in RawResults("neo4j", Neo4jValues) \cup RawResults("age", AgeValues)
    /\ rout = <<>>

\* _execute_neo4j: the records of the eager result as dicts, then
\* _transform_neo4j_results(records, elapsed)
TransformNeo4j ==
    /\ rpc = "input"
    /\ rin.backend = "neo4j"
    /\ rout' = TransformNeo4jResults(rin.columns, rin.rows)
    /\ rpc' = "done"
    /\ UNCHANGED <<rin, execVars, cancelVars>>

\* _execute_age: rows = await cur.fetchall(), then
\* _transform_age_results(columns, rows, elapsed)
TransformAge ==
    /\ rpc = "input"
    /\ rin.backend = "age"
    /\ rout' = TransformAgeResults(rin.columns, rin.rows)
    /\ rpc' = "done"
    /\ UNCHANGED <<rin, execVars, cancelVars>>

InitResult == ExecInit /\ CancelInit /\ ResultInit
NextResult ==
    \/ TransformNeo4j
    \/ TransformAge
SpecResult == InitResult /\ [][NextResult]_vars

(***************************************************************************)
(* The column resolver (_parse_cypher_return_columns).  Texts are walked   *)
(* character by character; the regular expressions are given by what they  *)
(* match.                                                                  *)
(***************************************************************************)
\* text[i], "" outside the text
CharAt(text, i) == IF i >= 1 /\ i <= Len(text) THEN SubSeq(text, i, i) ELSE ""
\* \s
IsSpace(c) == c \in {" ", "\t", "\n", "\r", "\f"}
LowerLetters ==
    {"a", "b", "c", "d", "e", "f", "g", "h", "i", "j", "k", "l", "m",
     "n", "o", "p", "q", "r", "s", "t", "u", "v", "w", "x", "y", "z"}
UpperToLower ==
    [A |-> "a", B |-> "b", C |-> "c", D |-> "d", E |-> "e", F |-> "f",
     G |-> "g", H |-> "h", I |-> "i", J |-> "j", K |-> "k", L |-> "l",
     M |-> "m", N |-> "n", O |-> "o", P |-> "p", Q |-> "q", R |-> "r",
     S |-> "s", T |-> "t", U |-> "u", V |-> "v", W |-> "w", X |-> "x",
     Y |-> "y", Z |-> "z"]
Digits == {"0", "1", "2", "3", "4", "5", "6", "7", "8", "9"}
\* \w
IsWord(c) == c \in LowerLetters \cup DOMAIN UpperToLower \cup Digits \cup {"_"}
\* re.IGNORECASE: a letter matches in either case
Lower(c) == IF c \in DOMAIN UpperToLower THEN UpperToLower[c] ELSE c
\* the keyword kw (in lower case) stands at text[i..], in either case
KeywordAt(text, i, kw) ==
    /\ i >= 1
    /\ i + Len(kw) - 1 <= Len(text)
    /\ \A d \in 0..(Len(kw) - 1) : Lower(CharAt(text, i + d)) = CharAt(kw, d + 1)
\* the end of a greedy \s* that starts at i: the first position from i on
\* that holds no whitespace
SkipSpaces(text, i) ==
    CHOOSE j \in i..(Len(text) + 1) :
        /\ ~IsSpace(CharAt(text, j))
        /\ \A k \in i..(j - 1) : IsSpace(CharAt(text, k))
\* text.strip()
Strip(text) ==
    LET inked == { i \in 1..Len(text) : ~IsSpace(CharAt(text, i)) }
    IN  IF inked = {} THEN ""
        ELSE SubSeq(text, CHOOSE i \in inked : \A j \in inked : i <= j,
                          CHOOSE i \in inked : \A j \in inked : i >= j)

\* \s+ORDER\s+BY | \s+SKIP | \s+LIMIT | \s+UNION | $  matches at position k
ClauseEndAt(text, k) ==
    \/ /\ IsSpace(CharAt(text, k))
       /\ LET w == SkipSpaces(text, k) IN
          \/ /\ KeywordAt(text, w, "order")
             /\ IsSpace(CharAt(text, w + 5))
             /\ KeywordAt(text, SkipSpaces(text, w + 5), "by")
          \/ KeywordAt(text, w, "skip")
          \/ KeywordAt(text, w, "limit")
          \/ KeywordAt(text, w, "union")
    \/ k = Len(text) + 1
    \/ k = Len(text) /\ CharAt(text, k) = "\n"

\* the positions where \bRETURN\s+ matches
ReturnAt(text) ==
    { i \in 1..Len(text) :
        /\ KeywordAt(text, i, "return")
        /\ ~IsWord(CharAt(text, i - 1))
        /\ IsSpace(CharAt(text, i + 6)) }
\* return_match.group(2) of the leftmost match: what follows RETURN\s+ and
\* an optional DISTINCT\s+, up to the first position where the clause ends
ReturnGroup(text) ==
    LET at == CHOOSE i \in ReturnAt(text) : \A j \in ReturnAt(text) : i <= j
        after == SkipSpaces(text, at + 6)
        start == IF KeywordAt(text, after, "distinct")
                    /\ IsSpace(CharAt(text, after + 8))
                 THEN SkipSpaces(text, after + 8) ELSE after
        stop == CHOOSE k \in start..(Len(text) + 1) :
                    /\ ClauseEndAt(text, k)
                    /\ \A j \in start..(k - 1) : ~ClauseEndAt(text, j)
    IN  SubSeq(text, start, stop - 1)

\* the loop over return_clause from character i on: columns holds the
\* fragments split off so far, current the fragment being read
RECURSIVE SplitColumns(_, _, _, _, _, _)
SplitColumns(clause, i, columns, current, paren_depth, bracket_depth) ==
    IF i > Len(clause)
    THEN (IF Strip(current) # "" THEN Append(columns, Strip(current)) ELSE columns)
    ELSE LET char == CharAt(clause, i) IN
         CASE char = "(" ->
                SplitColumns(clause, i + 1, columns, current \o char,
                             paren_depth + 1, bracket_depth)
           [] char = ")" ->
                SplitColumns(clause, i + 1, columns, current \o char,
                             paren_depth - 1, bracket_depth)
           [] char = "[" ->
                SplitColumns(clause, i + 1, columns, current \o char,
                             paren_depth, bracket_depth + 1)
           [] char = "]" ->
                SplitColumns(clause, i + 1, columns, current \o char,
                             paren_depth, bracket_depth - 1)
           [] char = "," /\ paren_depth = 0 /\ bracket_depth = 0 ->
                SplitColumns(clause, i + 1, Append(columns, Strip(current)), "",
                             paren_depth, bracket_depth)
           [] OTHER ->
                SplitColumns(clause, i + 1, columns, current \o char,
                             paren_depth, bracket_depth)

\* every character of text[a..b] is a word character, and there is one
WordRun(text, a, b) ==
    a <= b /\ \A k \in a..b : IsWord(CharAt(text, k))
\* the positions where group 1 of \s+AS\s+(\w+)\s*$ can start in a stripped
\* col: a run of word characters up to the end, with whitespace, AS and
\* whitespace in front of it
AliasAt(col) ==
    { a \in 1..Len(col) :
        /\ WordRun(col, a, Len(col))
        /\ IsSpace(CharAt(col, a - 1))
        /\ \E e \in 1..(a - 1) :
              /\ \A k \in (e + 1)..(a - 1) : IsSpace(CharAt(col, k))
              /\ KeywordAt(col, e - 1, "as")
              /\ IsSpace(CharAt(col, e - 2)) }
\* ^\w+\.(\w+)$ : the position of the dot
PropertyDotAt(col) ==
    { d \in 1..Len(col) :
        /\ CharAt(col, d) = "."
        /\ WordRun(col, 1, d - 1)
        /\ WordRun(col, d + 1, Len(col)) }

\* the loop over columns from column k on; names is the list result so far
RECURSIVE NameColumns(_, _, _)
NameColumns(columns, k, names) ==
    IF k > Len(columns) THEN names
    ELSE LET col == Strip(columns[k]) IN
         IF col = "" THEN NameColumns(columns, k + 1, names)
         ELSE IF AliasAt(col) # {}
         THEN NameColumns(columns, k + 1,
                  Append(names, SubSeq(col, CHOOSE a \in AliasAt(col) : TRUE, Len(col))))
         ELSE IF WordRun(col, 1, Len(col))
         THEN NameColumns(columns, k + 1, Append(names, col))
         ELSE IF PropertyDotAt(col) # {}
         THEN NameColumns(columns, k + 1,
                  Append(names, SubSeq(col, (CHOOSE d \in PropertyDotAt(col) : TRUE) + 1,
                                        Len(col))))
         ELSE NameColumns(columns, k + 1,
                  Append(names, "col" \o ToString(Len(names) + 1)))

ParseWithoutDefault(cypher) ==
    IF ReturnAt(cypher) = {} THEN <<>>
    ELSE NameColumns(SplitColumns(Strip(ReturnGroup(cypher)), 1, <<>>, "", 0, 0), 1, <<>>)

\* _parse_cypher_return_columns
ParseCypherReturnColumns(cypher) ==
    IF ReturnAt(cypher) = {} THEN <<"result">>
    ELSE LET return_clause == Strip(ReturnGroup(cypher))
             columns == SplitColumns(return_clause, 1, <<>>, "", 0, 0)
             names == NameColumns(columns, 1, <<>>)
         IN  IF names # <<>> THEN names ELSE <<"result">>

\* text.replace(old, new): the occurrences of old, left to right, none
\* overlapping another
RECURSIVE Replace(_, _, _)
Replace(text, old, new) ==
    LET at == { i \in 1..(Len(text) - Len(old) + 1) :
                  SubSeq(text, i, i + Len(old) - 1) = old }
    IN  IF at = {} THEN text
        ELSE LET first == CHOOSE i \in at : \A j \in at : i <= j
             IN  SubSeq(text, 1, first - 1) \o new
                 \o Replace(SubSeq(text, first + Len(old), Len(text)), old, new)

\* ", ".join(f"{col} agtype" for col in columns), from column k on
RECURSIVE AsClause(_, _)
AsClause(columns, k) ==
    IF k > Len(columns) THEN ""
    ELSE columns[k] \o " agtype"
         \o (IF k < Len(columns) THEN ", " ELSE "")
         \o AsClause(columns, k + 1)

\* _build_age_wrapper
BuildAgeWrapper(graph_name, cypher) ==
    LET columns == ParseCypherReturnColumns(cypher)
        escaped == Replace(cypher, "$$", "\\$\\$")
        as_clause == AsClause(columns, 1)
    IN  "SELECT * FROM cypher('" \o graph_name \o "', $$\n" \o escaped
        \o "\n$$) AS (" \o as_clause \o ");"

(***************************************************************************)
(* The queries handed to the resolver and to the wrapper: a head up to     *)
(* RETURN, up to MaxFragments comma-separated fragments, and a tail.  Each  *)
(* fragment is written down with the rule that names it and its name.      *)
(***************************************************************************)
Fragment(text, rule, name) == [text |-> text, rule |-> rule, name |-> name]
Fragments ==
    { Fragment("n", "bare", "n"),
      Fragment("m.name", "property", "name"),
      Fragment("m.name AS mn", "alias", "mn"),
      Fragment("count(*)", "synthesized", ""),
      Fragment("coalesce(a,b) AS x", "alias", "x"),
      Fragment("[a, b]", "synthesized", ""),
      Fragment("n AS skipped", "alias", "skipped"),
      Fragment("", "empty", "") }
DollarFragments ==
    { Fragment("'$'", "synthesized", ""),
      Fragment("'$$' AS d", "alias", "d"),
      Fragment("'$$$'", "synthesized", ""),
      Fragment("'$$$$'", "synthesized", "") }
Heads == { "MATCH (n)-[r]->(m) RETURN ", "match (n) return distinct " }
Tails == { "", " ORDER BY a, b LIMIT 5" }

\* the fragments from fragment k on, joined by ", "
RECURSIVE JoinFragments(_, _)
JoinFragments(fragments, k) ==
    IF k > Len(fragments) THEN ""
    ELSE fragments[k].text
         \o (IF k < Len(fragments) THEN ", " ELSE "")
         \o JoinFragments(fragments, k + 1)
Query(text, clause, fragments, tail) ==
    [text |-> text, clause |-> clause, fragments |-> fragments, tail |-> tail]
FragmentLists == UNION { [1..n -> Fragments] : n \in 1..MaxFragments }
CypherQueries ==
    { Query(h \o JoinFragments(fs, 1) \o t, "some", fs, t) :
        h \in Heads, fs \in FragmentLists, t \in Tails }
    \cup { Query("RETURN " \o f.text, "some", <<f>>, "") : f \in DollarFragments }
    \cup { Query(text, "none", <<>>, "") :
             text \in { "MATCH (n) SET n.x = 1", "MATCH (n) RETURN",
                        "MATCH (returned) DELETE returned" } }
GraphName == "g"

WrapperInit ==
    /\ rpc = "query"
    /\ rin \in CypherQueries
    /\ rout = <<>>

\* columns = _parse_cypher_return_columns(cypher)
ResolveColumns ==
    /\ rpc = "query"
    /\ rout' = ParseCypherReturnColumns(rin.text)
    /\ rpc' = "columns"
    /\ UNCHANGED <<rin, execVars, cancelVars>>

\* _execute_age, cypher_only: query = _build_age_wrapper(config.graph_name, query)
WrapQuery ==
    /\ rpc = "query"
    /\ rout' = BuildAgeWrapper(GraphName, rin.text)
    /\ rpc' = "wrapped"
    /\ UNCHANGED <<rin, execVars, cancelVars>>

InitWrapper == ExecInit /\ CancelInit /\ WrapperInit
NextWrapper ==
    \/ ResolveColumns
    \/ WrapQuery
SpecWrapper == InitWrapper /\ [][NextWrapper]_vars

(***************************************************************************)
(* The two deadline-bounded waits of _execute_neo4j.  The query needs      *)
(* rin.submit units of time until session.run returns and rin.fetch units  *)
(* until to_eager_result returns; rin.timeout is timeout_ms in the same    *)
(* unit.  rout.elapsed is the time spent in the two waits so far.          *)
(***************************************************************************)
\* largest timeout_ms
MaxTimeout == 3
\* largest time a phase of the query needs
MaxDuration == 4

\* asyncio.wait_for(aw, timeout), where aw needs duration:
\* aw can finish before wait_for gives up (at duration = timeout either
\* side of the race can win)
CanFinish(duration, timeout) == duration <= timeout
\* wait_for can give up before aw has finished
CanExpire(duration, timeout) == duration >= timeout

\* timeout=timeout_ms / 1000 of the second wait_for
FetchTimeout(timeout, elapsed) == timeout

DeadlineInit ==
    /\ rpc = "submit"
    /\ rin \in [timeout : 1..MaxTimeout, submit : 0..MaxDuration,
                fetch : 0..MaxDuration]
    /\ rout = [elapsed |-> 0, outcome |-> "none"]

\* result = await asyncio.wait_for(session.run(...), timeout) returns
SubmitReturns ==
    /\ rpc = "submit"
    /\ CanFinish(rin.submit, rin.timeout)
    /\ rpc' = "fetch"
    /\ rout' = [rout EXCEPT !.elapsed = rin.submit]
    /\ UNCHANGED <<rin, execVars, cancelVars>>

\* the first wait_for raises asyncio.TimeoutError: Query timed out
SubmitTimesOut ==
    /\ rpc = "submit"
    /\ CanExpire(rin.submit, rin.timeout)
    /\ rpc' = "returned"
    /\ rout' = [elapsed |-> rin.timeout, outcome |-> "TIMEOUT"]
    /\ UNCHANGED <<rin, execVars, cancelVars>>

\* eager_result = await asyncio.wait_for(result.to_eager_result(), timeout)
\* returns; the records are transformed
FetchReturns ==
    /\ rpc = "fetch"
    /\ CanFinish(rin.fetch, FetchTimeout(rin.timeout, rout.elapsed))
    /\ rpc' = "returned"
    /\ rout' = [elapsed |-> rout.elapsed + rin.fetch, outcome |-> "RESULT"]
    /\ UNCHANGED <<rin, execVars, cancelVars>>

\* the second wait_for raises asyncio.TimeoutError: Query timed out
FetchTimesOut ==
    /\ rpc = "fetch"
    /\ CanExpire(rin.fetch, FetchTimeout(rin.timeout, rout.elapsed))
    /\ rpc' = "returned"
    /\ rout' = [elapsed |-> rout.elapsed + FetchTimeout(rin.timeout, rout.elapsed),
                outcome |-> "TIMEOUT"]
    /\ UNCHANGED <<rin, execVars, cancelVars>>

InitDeadline == ExecInit /\ CancelInit /\ DeadlineInit
NextDeadline ==
    \/ SubmitReturns
    \/ SubmitTimesOut
    \/ FetchReturns
    \/ FetchTimesOut
SpecDeadline == InitDeadline /\ [][NextDeadline]_vars

(***************************************************************************)
(* Properties of the registry, the connections and the returned values.    *)
(***************************************************************************)
\* the call t has started and has not returned
InFlight(t) == pc[t] \notin {"idle", "done"}
\* the call t returns in this step
Returns(t) == pc[t] # "done" /\ pc'[t] = "done"
\* the call t registers its ExecutionContext in this step
Registers(t) == pc[t] \in {"idle", "pid"} /\ pc'[t] \in {"submit", "set_timeout"}
\* the call t observes the terminal failure of its query in this step
Observes(t) == terminal[t] = "none" /\ terminal'[t] # "none"
QueryErrors == {"TIMEOUT", "CANCELLED", "BACKEND_ERROR"}

\* C1 (as claimed): at every moment of an execute call, from its start until
\* it returns, the registry holds a record for the session of the call.
C1_RecordDuringCall ==
    \A t \in Tasks : InFlight(t) => running[sess[t]] # NoTask

\* C1 (amended): a record in the registry belongs to a call of that session
\* that is in flight; a call registers its own record when the connection
\* is prepared; and from then on the registry holds that record for the
\* session until the call itself returns or another execute call of the
\* same session registers or returns.
C1_RecordKeptUntilReplaced ==
    /\ [](\A s \in Sessions : running[s] # NoTask =>
            InFlight(running[s]) /\ sess[running[s]] = s)
    /\ [][\A t \in Tasks :
            /\ Registers(t) => running'[sess'[t]] = t
            /\ (InFlight(t) /\ running[sess[t]] = t /\ running'[sess[t]] # t) =>
                  \E u \in Tasks :
                      /\ sess'[u] = sess[t]
                      /\ \/ Returns(u)
                         \/ u # t /\ Registers(u) /\ running'[sess[t]] = u
         ]_vars

\* a registered AGE query keeps its record while a second execute of the
\* same session is still preparing its connection
C1_Witness ==
    \E t \in Tasks, u \in Tasks :
        /\ t # u
        /\ sess[t] = sess[u]
        /\ pc[t] = "query"
        /\ pc[u] = "load"
        /\ running[sess[t]] = t

\* C2: once no execute call of a session is in flight, whichever way the
\* calls ended, the registry holds no record for the session.
C2_RecordRemovedAtExit ==
    \A s \in Sessions :
        (\A t \in Tasks : sess[t] = s => ~InFlight(t)) => running[s] = NoTask

\* two calls of one session have ended, one by an exception while
\* connecting and one with a query error, and the registry is empty
C2_Witness ==
    \E t \in Tasks, u \in Tasks :
        /\ sess[t] = sess[u]
        /\ pc[t] = "done" /\ result[t] = "RAISED" /\ conn[t] = "none"
        /\ pc[u] = "done" /\ result[u] \in QueryErrors
        /\ running[sess[t]] = NoTask

\* C3: when an execute call has ended, the session or connection (and the
\* driver) it opened is closed, on every outcome.
C3_ConnectionsReleased ==
    \A t \in Tasks : pc[t] = "done" => conn[t] # "open" /\ driver[t] # "open"

\* two calls of one session overlapped and both ended in an error with
\* their connections closed
C3_Witness ==
    \E t \in Tasks, u \in Tasks :
        /\ t # u
        /\ sess[t] = sess[u]
        /\ pc[t] = "done" /\ result[t] \in QueryErrors /\ conn[t] = "closed"
        /\ pc[u] = "done" /\ result[u] = "RAISED" /\ conn[u] = "closed"

\* C4: when the cancelled flag of the record is set at the moment execute
\* observes the terminal failure of the query, execute returns Cancelled,
\* whatever the shape of the failure.
C4_CancelledFlagWins ==
    [][\A t \in Tasks :
          (Observes(t) /\ cancelled[t]) => result'[t] = "CANCELLED"]_vars

\* C5 (as claimed): a query whose deadline expires makes execute return
\* Timeout, and at that return the registry holds no record for the session.
C5_DeadlineGivesTimeout ==
    [][\A t \in Tasks :
          /\ (Observes(t) /\ terminal'[t] = "deadline") => result'[t] = "TIMEOUT"
          /\ (Returns(t) /\ terminal[t] = "deadline") =>
                running'[sess[t]] = NoTask /\ result'[t] = "TIMEOUT"
      ]_vars

\* C5 (amended): a query whose deadline expiry execute observes returns
\* Timeout, except on AGE when the cancelled flag is set at that moment,
\* where it returns Cancelled; at that return the registry holds no record
\* for the session.
C5_DeadlineClassified ==
    [][\A t \in Tasks :
          /\ (Observes(t) /\ terminal'[t] = "deadline") =>
                result'[t] = IF Backend(t) = "age" /\ cancelled[t]
                             THEN "CANCELLED" ELSE "TIMEOUT"
          /\ (Returns(t) /\ terminal[t] = "deadline") =>
                running'[sess[t]] = NoTask /\ result'[t] = result[t]
      ]_vars

\* a Neo4j call has returned Timeout and left no record, and an AGE call
\* whose deadline expired under a set flag is about to return Cancelled
C5_Witness ==
    \E t \in Tasks, u \in Tasks :
        /\ pc[t] = "done" /\ result[t] = "TIMEOUT"
        /\ running[sess[t]] = NoTask
        /\ pc[u] = "close" /\ terminal[u] = "deadline"
        /\ result[u] = "CANCELLED"

\* C6 (as claimed): cancel returns false only when it found no record;
\* whenever it found one it returns true.
C6_FalseOnlyWithoutRecord ==
    cpc = "done" => (cresult = "false" <=> ctarget = NoTask)

\* C6 (amended): cancel returns false at once when the registry holds no
\* record for the session; when it holds one, cancel sets the cancelled
\* flag of that record before anything else; it returns true only when the
\* termination action was issued (the session of the record closed, or the
\* cancel command executed over the side connection), and false when the
\* side connection could not be opened or the command failed.
C6_CancelOutcome ==
    [][/\ (cpc = "idle" /\ cpc' # "idle") =>
            IF running[csess'] = NoTask
            THEN cpc' = "done" /\ cresult' = "false" /\ ctarget' = NoTask
            ELSE /\ ctarget' = running[csess']
                 /\ cancelled'[ctarget']
                 /\ cresult' = "none"
       /\ (cresult = "none" /\ cresult' = "true") =>
            /\ ctarget # NoTask
            /\ IF Backend(ctarget) = "neo4j"
               THEN cpc = "session_close" /\ conn'[ctarget] = "closed"
               ELSE /\ cpc = "side_exec" /\ cside = "open" /\ cside' = "closed"
                    /\ InFlight(ctarget) => signalled'[ctarget]
       /\ (cresult = "none" /\ cresult' = "false" /\ ctarget # NoTask) =>
            /\ Backend(ctarget) = "age"
            /\ cpc \in {"side_connect", "side_exec"}
            /\ signalled' = signalled
      ]_vars

\* cancel has returned true while the query it targets is still running
C6_Witness ==
    /\ cpc = "done"
    /\ cresult = "true"
    /\ ctarget # NoTask
    /\ pc[ctarget] \in {"submit", "fetch", "query"}
    /\ cancelled[ctarget]

\* C7: cancel for a session without a record returns false, issues no
\* termination action and leaves the registry, the flags and the
\* connections of all sessions as they are.
C7_CancelMissChangesNothing ==
    [][(cpc = "idle" /\ cpc' # "idle" /\ running[csess'] = NoTask) =>
          /\ cpc' = "done"
          /\ cresult' = "false"
          /\ cside' = cside
          /\ UNCHANGED execVars
      ]_vars

\* cancel for s2 found no record and returned false while the query of
\* session s1 stays registered and unflagged
C7_Witness ==
    /\ cpc = "done"
    /\ cresult = "false"
    /\ csess = "s2"
    /\ running["s2"] = NoTask
    /\ running["s1"] # NoTask
    /\ ~cancelled[running["s1"]]
    /\ ~signalled[running["s1"]]

\* C8: every execute call ends by returning a result or a QueryError; no
\* failure leaves execute as an exception.
C8_NoEscapingException ==
    \A t \in Tasks : pc[t] = "done" => result[t] \in {"RESULT"} \cup QueryErrors

(***************************************************************************)
(* Properties of the result transformation (SpecResult).                   *)
(***************************************************************************)
\* A Graph Reference Cell: kind, identity (absent for a path), display
CellKind(cell) ==
    IF cell.py # "dict" THEN "scalar"
    ELSE IF cell.keys = <<"__type", "id", "display">>
            /\ cell.d["__type"] \in {PyStr("node"), PyStr("rel")}
         THEN cell.d["__type"].v
    ELSE IF cell.keys = <<"__type", "display">> /\ cell.d["__type"] = PyStr("path")
         THEN "path"
    ELSE "scalar"
\* the positions <<row, column>> of the cells of a row set
CellsOfRows(rows) ==
    { <<i, j>> \in (1..Len(rows)) \X (1..MaxCells) : j <= Len(rows[i]) }
AllCellsOfKind(rows, kinds) ==
    \A ij \in CellsOfRows(rows) : CellKind(rows[ij[1]][ij[2]]) \in kinds

\* C9: a result is graph-compatible exactly when all its cells are graph
\* reference cells (node, relationship or path) and its relationship set
\* is non-empty, zero-row results included.
C9_GraphCompatibleIff ==
    rpc = "done" =>
        (rout.is_graph_compatible <=>
            /\ AllCellsOfKind(rout.rows, {"node", "rel", "path"})
            /\ rout.relationships # <<>>)

\* C10 as stated: a result whose rows hold only path cells is paths-only
\* and not graph-compatible.
C10_PathsOnlyNotCompatible ==
    (rpc = "done" /\ AllCellsOfKind(rout.rows, {"path"})) =>
        (rout.is_paths_only /\ ~rout.is_graph_compatible)

\* C10: a result with at least one row whose cells are all path cells is
\* paths-only, and it is graph-compatible exactly when the paths brought
\* at least one relationship into the relationship set.
C10_PathsOnlyCompatibleWithRels ==
    (rpc = "done" /\ rout.rows # <<>> /\ AllCellsOfKind(rout.rows, {"path"})) =>
        /\ rout.is_paths_only
        /\ rout.is_graph_compatible <=> (rout.relationships # <<>>)

\* a single path cell whose path brought a relationship: paths-only and
\* graph-compatible
C10_Witness ==
    /\ rpc = "done"
    /\ rout.rows # <<>>
    /\ AllCellsOfKind(rout.rows, {"path"})
    /\ rout.relationships # <<>>
    /\ rout.is_paths_only
    /\ rout.is_graph_compatible

\* C11: a result is paths-only exactly when it has at least one row and
\* every cell of every row is a path reference cell; a cell of any other
\* kind, a mapping included, makes it false.
C11_PathsOnlyIff ==
    rpc = "done" =>
        (rout.is_paths_only <=>
            /\ rout.rows # <<>>
            /\ AllCellsOfKind(rout.rows, {"path"}))

\* the elements of a node or relationship set have pairwise distinct ids
DistinctIds(elems) ==
    \A i \in 1..Len(elems), j \in 1..Len(elems) :
        elems[i].id = elems[j].id => i = j
\* the number of cells of kind node that name the identity id
NodeCellsNaming(rows, id) ==
    Cardinality({ ij \in CellsOfRows(rows) :
                    /\ CellKind(rows[ij[1]][ij[2]]) = "node"
                    /\ rows[ij[1]][ij[2]].d["id"] = PyStr(id) })

\* C12: in every result of either backend the node identities are pairwise
\* distinct in the node set and the relationship identities are pairwise
\* distinct in the relationship set, however often an identity is referenced.
C12_IdentitiesDistinct ==
    rpc = "done" => DistinctIds(rout.nodes) /\ DistinctIds(rout.relationships)

\* an AGE result whose row holds a path through vertex 1 and vertex 1 itself
\* (or the same vertex in two cells): vertex 1 is in the node set once
C12_Witness ==
    /\ rpc = "done"
    /\ rin.backend = "age"
    /\ AllCellsOfKind(rout.rows, {"node", "path"})
    /\ NodeCellsNaming(rout.rows, "1") >= 1
    /\ \E ij \in CellsOfRows(rout.rows) : CellKind(rout.rows[ij[1]][ij[2]]) = "path"
    /\ Len(rout.nodes) = 2
    /\ Cardinality({ i \in 1..Len(rout.nodes) : rout.nodes[i].id = "1" }) = 1

\* C13: every cell of kind node names an identity that is in the node set
\* of the result, and every cell of kind relationship one that is in the
\* relationship set, also for a tagged vertex or edge without an id.
C13_ReferencesResolve ==
    rpc = "done" =>
        \A ij \in CellsOfRows(rout.rows) :
            LET cell == rout.rows[ij[1]][ij[2]] IN
            /\ CellKind(cell) = "node" =>
                  \E i \in 1..Len(rout.nodes) : PyStr(rout.nodes[i].id) = cell.d["id"]
            /\ CellKind(cell) = "rel" =>
                  \E i \in 1..Len(rout.relationships) :
                      PyStr(rout.relationships[i].id) = cell.d["id"]

\* C14: in every result of either backend, empty results included,
\* row_count is the number of rows (one per fetched record) and every row
\* has as many cells as the result has column names.
C14_RowCountAndWidth ==
    rpc = "done" =>
        /\ rout.row_count = Len(rout.rows)
        /\ Len(rout.rows) = Len(rin.rows)
        /\ \A i \in 1..Len(rout.rows) : Len(rout.rows[i]) = Len(rout.columns)

\* a result of two rows under one column, counted as two
C14_Witness ==
    /\ rpc = "done"
    /\ Len(rout.rows) = 2
    /\ rout.row_count = 2
    /\ Len(rout.columns) = 1
    /\ Len(rout.rows[2]) = 1


(***************************************************************************)
(* Properties of the column resolver and of the wrapper (SpecWrapper).     *)
(***************************************************************************)
\* the names the fragments get by their rules, from fragment k on: an empty
\* fragment gets none, a synthesized name counts the names given so far
RECURSIVE ExpectedNames(_, _, _)
ExpectedNames(fragments, k, names) ==
    IF k > Len(fragments) THEN names
    ELSE LET f == fragments[k] IN
         ExpectedNames(fragments, k + 1,
             CASE f.rule = "empty" -> names
               [] f.rule = "synthesized" ->
                    Append(names, "col" \o ToString(Len(names) + 1))
               [] OTHER -> Append(names, f.name))
NonEmptyFragments(fragments) ==
    { k \in 1..Len(fragments) : fragments[k].rule # "empty" }

\* C15: the resolver names the fragments of the return clause in order, each
\* by the first rule that applies: the alias, the bare identifier, the
\* trailing identifier of a property access, else col<N> with N the position
\* of the column in the output so far.
C15_NamedByFirstRule ==
    (rpc = "columns" /\ NonEmptyFragments(rin.fragments) # {}) =>
        rout = ExpectedNames(rin.fragments, 1, <<>>)

\* C16: the return clause is split only at the commas outside parentheses
\* and brackets, so the resolver gives as many columns as the clause has
\* non-empty fragments.
C16_OneColumnPerFragment ==
    (rpc = "columns" /\ NonEmptyFragments(rin.fragments) # {}) =>
        Len(rout) = Cardinality(NonEmptyFragments(rin.fragments))

DollarPairs(text) ==
    { i \in 1..(Len(text) - 1) : CharAt(text, i) = "$" /\ CharAt(text, i + 1) = "$" }

\* C18: in the statement built for a passthrough query, the text between
\* the opening $$ (the first of the statement) and the closing $$ (the last)
\* holds no two adjacent '$', whatever runs of '$' the query text holds.
C18_NoDelimiterInBody ==
    rpc = "wrapped" =>
        LET open == CHOOSE i \in DollarPairs(rout) : \A j \in DollarPairs(rout) : i <= j
            close == CHOOSE i \in DollarPairs(rout) : \A j \in DollarPairs(rout) : i >= j
        IN  /\ open + 2 <= close
            /\ \A i \in DollarPairs(rout) : i = open \/ i = close


(***************************************************************************)
(* Properties of the AGE normalizer (SpecResult).                          *)
(***************************************************************************)
\* text ends with suffix
EndsWith(text, suffix) ==
    /\ Len(text) >= Len(suffix)
    /\ SubSeq(text, Len(text) - Len(suffix) + 1, Len(text)) = suffix
\* an AGE value of no recognized shape: a text without vertex, edge or path
\* suffix, or one whose body is no JSON
OpaqueAgeValue(val) ==
    /\ val.py = "str"
    /\ \/ \A suffix \in {"::vertex", "::edge", "::path"} : ~EndsWith(val.v, suffix)
       \/ ~JsonLoads(Remove(Remove(Remove(val.v, "::path"), "::vertex"), "::edge")).ok

\* C19: the AGE normalizer returns a value of no recognized shape unchanged,
\* and a result made of such values only has empty node and relationship
\* sets.
C19_OpaqueUnchanged ==
    (rpc = "done" /\ rin.backend = "age") =>
        /\ \A ij \in CellsOfRows(rin.rows) :
              OpaqueAgeValue(rin.rows[ij[1]][ij[2]]) =>
                  rout.rows[ij[1]][ij[2]] = rin.rows[ij[1]][ij[2]]
        /\ (\A ij \in CellsOfRows(rin.rows) : OpaqueAgeValue(rin.rows[ij[1]][ij[2]])) =>
              rout.nodes = <<>> /\ rout.relationships = <<>>

\* the vertex texts with id, label and properties, each with the node and
\* the display it stands for
Vertex(text, id, labels, properties, display) ==
    [raw |-> PyStr(text \o "::vertex"), id |-> id, labels |-> labels,
     properties |-> properties, display |-> display]
WellFormedVertices ==
    { Vertex("{\"id\": \"1\", \"label\": \"Person\", \"properties\": {\"name\": \"Ann\"}}",
             "1", <<"Person">>, PyDict(<<"name">>, [name |-> PyStr("Ann")]),
             "(Person: Ann)"),
      Vertex("{\"id\": 2, \"label\": \"\", \"properties\": {}}",
             "2", <<>>, EmptyDict, "(Node)") }

\* C20: the AGE normalizer turns a vertex text with id, label and
\* properties into a node cell carrying the id, and the node set holds
\* exactly one node of that id, with the label as its only label (none for
\* an empty label) and the properties; the vertex 1 of label Person and
\* name Ann gets the display "(Person: Ann)".
C20_VertexNormalized ==
    (rpc = "done" /\ rin.backend = "age") =>
        \A ij \in CellsOfRows(rin.rows) : \A w \in WellFormedVertices :
            rin.rows[ij[1]][ij[2]] = w.raw =>
                /\ rout.rows[ij[1]][ij[2]] = NodeCell(w.id, w.display)
                /\ Cardinality({ i \in 1..Len(rout.nodes) : rout.nodes[i].id = w.id }) = 1
                /\ \E i \in 1..Len(rout.nodes) :
                      rout.nodes[i] = GraphNode(w.id, w.labels, w.properties)

\* the vertex Ann next to the vertex without label: two node cells, two
\* nodes
C20_Witness ==
    /\ rpc = "done"
    /\ rin.backend = "age"
    /\ Len(rout.rows) = 1
    /\ rout.rows[1] = <<NodeCell("1", "(Person: Ann)"), NodeCell("2", "(Node)")>>
    /\ rout.nodes = <<GraphNode("1", <<"Person">>, PyDict(<<"name">>, [name |-> PyStr("Ann")])),
                      GraphNode("2", <<>>, EmptyDict)>>

(***************************************************************************)
(* Properties of the error classification, the statement order and the     *)
(* isolation of sessions (Spec).                                           *)
(***************************************************************************)
\* the shapes of failure that the backend of t reports for a deadline
\* expiry (Neo4j) or as its cancellation signal (AGE)
AbortShapes(t) == IF Backend(t) = "neo4j" THEN {"deadline"} ELSE {"deadline", "abort"}

\* C21: when the cancelled flag is not set, a failure that is neither a
\* deadline expiry (Neo4j) nor the backend's cancellation signal (AGE)
\* makes execute return a backend query error, never Timeout or Cancelled,
\* that carries the raw message of the failure on Neo4j and the message
\* and the backend's error code on AGE.
C21_OtherFailureIsBackendError ==
    [][\A t \in Tasks :
          (Observes(t) /\ ~cancelled[t] /\ terminal'[t] \notin AbortShapes(t)) =>
              /\ result'[t] = "BACKEND_ERROR"
              /\ error'[t].code \notin {"TIMEOUT", "CANCELLED"}
              /\ \E e \in Exceptions(Backend(t), terminal'[t]) :
                    error'[t] = QueryError(e.message,
                                           IF Backend(t) = "neo4j" THEN NoCode
                                           ELSE e.sqlstate)
      ]_vars

\* an unflagged AGE query failed with a syntax error and an unflagged
\* Neo4j query with a query error: one carries the SQLSTATE, the other the
\* message alone
C21_Witness ==
    \E t \in Tasks, u \in Tasks :
        /\ Backend(t) = "age" /\ pc[t] = "close" /\ ~cancelled[t]
        /\ terminal[t] = "error"
        /\ error[t] = QueryError("syntax error at or near \"RETRUN\"", "42601")
        /\ Backend(u) = "neo4j" /\ pc[u] = "close_session" /\ ~cancelled[u]
        /\ terminal[u] = "error"
        /\ error[u] = QueryError("Invalid input 'RETRUN'", NoCode)

(***************************************************************************)
(* Properties of the display strings (SpecResult).                         *)
(***************************************************************************)
\* the display keys that props holds, in priority order
PresentKeys(props) == SelectSeq(DisplayKeys, LAMBDA key : key \in DOMAIN props.d)
\* the text of the first property present among the display keys, cut to
\* the display limit
FirstPresentText(props) == Truncate(Str(props.d[PresentKeys(props)[1]]))
\* the displays a reference falls back to
NodeFallbacks(labels) == IF labels # <<>> THEN {"(" \o labels[1] \o ")"} ELSE {"(Node)"}
RelFallbacks(type) == IF type # "" THEN {"-[:" \o type \o "]->"} ELSE {"-[rel]->"}

\* C25: the display of a node or relationship reference is built from the
\* first property present among name, title, label, id, whatever its value,
\* cut to 50 characters and an ellipsis ("(<label>: <text>)" for a node
\* with a label); only when none of them is present is it the fallback
\* (<firstLabel>) or (Node), -[:<type>]-> or -[rel]->.
C25_DisplayFromFirstPresent ==
    (rpc = "done" /\ rin.backend = "neo4j") =>
        \A ij \in CellsOfRows(rin.rows) :
            LET val == rin.rows[ij[1]][ij[2]]
                display == rout.rows[ij[1]][ij[2]].d.display.v
            IN  /\ val.py = "Node" =>
                    IF PresentKeys(val.props) = <<>>
                    THEN display \in NodeFallbacks(val.labels)
                    ELSE /\ display \notin NodeFallbacks(val.labels)
                         /\ Contains(display, FirstPresentText(val.props))
                         /\ val.labels # <<>> =>
                               display = "(" \o val.labels[1] \o ": "
                                         \o FirstPresentText(val.props) \o ")"
                /\ val.py = "Relationship" =>
                    IF PresentKeys(val.props) = <<>>
                    THEN display \in RelFallbacks(val.type)
                    ELSE /\ display \notin RelFallbacks(val.type)
                         /\ Contains(display, FirstPresentText(val.props))

(***************************************************************************)
(* Properties of the deadline of the Neo4j adapter (SpecDeadline).         *)
(***************************************************************************)
\* C22: timeoutMillis is one deadline over both phases: submission and
\* materialization together never take longer than timeoutMillis, and a
\* query whose two phases together need more than timeoutMillis returns
\* Timeout.
C22_OneDeadline ==
    rpc = "returned" =>
        /\ rout.elapsed <= rin.timeout
        /\ rin.submit + rin.fetch > rin.timeout => rout.outcome = "TIMEOUT"

\* a step of the cancel_query call
CancelSteps == cpc' # cpc

\* C23 (as claimed): after a cancel that found the record, the registry no
\* longer holds that record.
C23_CancelRemovesRecord ==
    (ctarget # NoTask /\ cpc # "idle") => running[csess] # ctarget

\* C23 (amended): a record is placed in the registry when its query
\* registers and leaves it only when an execute call of its session
\* returns or registers a record of its own; no step of cancel, whether it
\* found the record or not, changes the registry.
C23_OnlyExecuteRemovesRecord ==
    [][/\ CancelSteps => running' = running
       /\ \A s \in Sessions :
             (running[s] # NoTask /\ running'[s] # running[s]) =>
                 \E u \in Tasks :
                     sess'[u] = s /\ ~CancelSteps /\ (Returns(u) \/ Registers(u))
      ]_vars

\* cancel found the record, issued the termination action and returned
\* true; the cancelled query has not returned yet and the registry still
\* holds its record
C23_Witness ==
    /\ cpc = "done"
    /\ cresult = "true"
    /\ ctarget # NoTask
    /\ InFlight(ctarget)
    /\ signalled[ctarget]
    /\ running[csess] = ctarget

\* the statements _execute_age awaits on its connection, in the order of
\* the code; pc[t] names the one the call t is waiting for
AgeStatements == <<"load", "search_path", "pid", "set_timeout", "query">>
\* the call t starts to wait for the statement stmt in this step
Issues(t, stmt) == pc[t] # stmt /\ pc'[t] = stmt

\* C24: on AGE the user statement is executed only after, on the same
\* freshly opened connection and in this order, the load-extension
\* statement, the search-path statement, the query for the backend process
\* identifier, with the record placed in the registry when it answered, and
\* the statement-timeout statement; no call reaches the user statement
\* having skipped or reordered one of them.
C24_PreparationInOrder ==
    /\ [](\A t \in Tasks :
            pc[t] \in {"load", "search_path", "pid", "set_timeout", "query"} =>
                Backend(t) = "age" /\ conn[t] = "open")
    /\ [][\A t \in Tasks :
            /\ Issues(t, "load") =>
                  pc[t] = "connect" /\ conn[t] = "none" /\ conn'[t] = "open"
            /\ \A k \in 2..Len(AgeStatements) :
                  Issues(t, AgeStatements[k]) => pc[t] = AgeStatements[k - 1]
            /\ Issues(t, "set_timeout") => running'[sess[t]] = t
         ]_vars

\* two AGE calls of one session have both gone through the preparation;
\* both wait for their user statement on their own open connection
C24_Witness ==
    \E t \in Tasks, u \in Tasks :
        /\ t # u
        /\ sess[t] = sess[u]
        /\ pc[t] = "query" /\ pc[u] = "query"
        /\ conn[t] = "open" /\ conn[u] = "open"
        /\ running[sess[t]] = u

\* the call u registers its record over the record of the call t, which is
\* still in flight, in this step
Replaces(u, t) ==
    /\ Registers(u)
    /\ t # NoTask /\ t # u
    /\ running[sess'[u]] = t
\* nothing of the query of the call t changes in this step
QueryUntouched(t) ==
    /\ pc'[t] = pc[t]
    /\ cancelled'[t] = cancelled[t]
    /\ signalled'[t] = signalled[t]
    /\ conn'[t] = conn[t]
    /\ driver'[t] = driver[t]
    /\ terminal'[t] = terminal[t]
    /\ result'[t] = result[t]

\* C26: an execute for a session that has a query in flight replaces the
\* record of that query without cancelling or terminating it; and a cancel
\* that starts later takes the record the registry holds then, the second
\* query's, and sets the flag and issues the termination action on that
\* query alone.
C26_ReplaceWithoutCancel ==
    [][/\ \A u \in Tasks, t \in Tasks :
             Replaces(u, t) => running'[sess'[u]] = u /\ QueryUntouched(t)
       /\ (cpc = "idle" /\ cpc' # "idle") =>
             /\ ctarget' = running[csess']
             /\ \A t \in Tasks : t # running[csess'] => QueryUntouched(t)
       /\ (cpc # "idle" /\ CancelSteps) =>
             \A t \in Tasks : t # ctarget => QueryUntouched(t)
      ]_vars

\* the second Neo4j query of session s1 replaced the record of the first;
\* a cancel then flagged and closed the second alone, and the first has
\* run on to its own result
C26_Witness ==
    \E t \in Tasks, u \in Tasks :
        /\ t # u
        /\ sess[t] = "s1" /\ sess[u] = "s1"
        /\ running["s1"] = u
        /\ cpc = "done" /\ ctarget = u /\ cresult = "true"
        /\ cancelled[u] /\ signalled[u]
        /\ pc[t] = "close_session" /\ result[t] = "RESULT"
        /\ ~cancelled[t] /\ ~signalled[t]

\* a step of the execute call t
ExecuteSteps(t) == pc'[t] # pc[t]
\* the session_id the cancel_query call that takes this step was called for
CancelSession == IF cpc = "idle" THEN csess' ELSE csess

\* C27: an execute or cancel for one session never creates, replaces or
\* removes the record of another session, never sets the cancelled flag of
\* a query of another session and never issues a termination action
\* against the session or connection of one, in any interleaving.
C27_SessionsIsolated ==
    [][/\ \A t \in Tasks :
             ExecuteSteps(t) =>
                 /\ \A s \in Sessions : s # sess'[t] => running'[s] = running[s]
                 /\ \A u \in Tasks :
                       (u # t /\ sess[u] # sess'[t]) => QueryUntouched(u)
       /\ CancelSteps =>
             /\ \A s \in Sessions : s # CancelSession => running'[s] = running[s]
             /\ \A u \in Tasks : sess[u] # CancelSession => QueryUntouched(u)
      ]_vars

\* the sessions s1 and s2 each have a registered query in flight; cancel
\* for s1 flagged and closed the query of s1 and returned true; the query
\* of s2 is registered, unflagged and untouched
C27_Witness ==
    \E t \in Tasks, u \in Tasks :
        /\ sess[t] = "s1" /\ sess[u] = "s2"
        /\ running["s1"] = t /\ running["s2"] = u
        /\ cpc = "done" /\ csess = "s1" /\ ctarget = t /\ cresult = "true"
        /\ cancelled[t] /\ signalled[t] /\ conn[t] = "closed"
        /\ pc[u] = "query" /\ conn[u] = "open"
        /\ ~cancelled[u] /\ ~signalled[u]

=============================================================================
